---------------------------- MODULE Spec2Model ----------------------------
(***************************************************************************)
(* A model of two pieces of HDGeant4:                                      *)
(*                                                                         *)
(*   - the configuration state of class CobremsGenerator                   *)
(*     (src/src/CobremsGenerator.hh): its scalar fields, the target        *)
(*     rotation matrix, the record of the last reciprocal-lattice sum,     *)
(*     and the inline setters, getters and resetTargetOrientation;         *)
(*     specification Spec.                                                 *)
(*                                                                         *)
(*   - the start-up of the main program (src/src/hdgeant4.cc): the         *)
(*     getopt loop, the choice of the run number and the choice between    *)
(*     batch and interactive mode; specification MainSpec.                 *)
(*                                                                         *)
(* Doubles are modelled by small integers.  An angle k stands for k        *)
(* quarter turns, so that sines and cosines are integers and a rotation    *)
(* matrix has entries in {-1, 0, 1}.                                       *)
(***************************************************************************)
EXTENDS Integers, Sequences, FiniteSets, TLC

\* ------------------------------------------------------------------ bounds
\* the doubles passed to the setters are drawn from -1 .. MaxVal
MaxVal == 1
\* the number of calls made on one CobremsGenerator object
MaxCalls == 3
\* the number of command-line arguments after the program name
MaxArgs == 3

Values == (0 - 1) .. MaxVal
\* rotation increments handed to RotateTarget, in quarter turns
Turns == 0 .. 1

VARIABLES
  \* ---- CobremsGenerator (CobremsGenerator.hh:143-165)
  fTargetThickness,
  fTargetThetax, fTargetThetay, fTargetThetaz, fTargetRmatrix,
  fBeamEnergy, fBeamErms, fBeamEmittance,
  fCollimatorSpotrms, fCollimatorDistance, fCollimatorDiameter,
  fCollimatedFlux, fPolarizedFlux,
  fQ2theta2, fQ2weight,
  \* the call made last on the object, its argument and what it returned
  lastCall,
  \* number of calls made so far
  ncalls,
  \* ---- main program (hdgeant4.cc)
  argv, controlIn,
  optind, nextchar,
  use_visualization, worker_threads, argi, run_number,
  visManager, warned, uiMode, fileName, exitCode, pc

cobVars == <<fTargetThickness, fTargetThetax, fTargetThetay, fTargetThetaz,
             fTargetRmatrix, fBeamEnergy, fBeamErms, fBeamEmittance,
             fCollimatorSpotrms, fCollimatorDistance, fCollimatorDiameter,
             fCollimatedFlux, fPolarizedFlux, fQ2theta2, fQ2weight,
             lastCall, ncalls>>

mainVars == <<argv, controlIn, optind, nextchar, use_visualization,
              worker_threads, argi, run_number, visManager, warned, uiMode,
              fileName, exitCode, pc>>

vars == <<cobVars, mainVars>>

\* ============================================================ CobremsGenerator

Identity == << <<1, 0, 0>>, <<0, 1, 0>>, <<0, 0, 1>> >>

\* cosine and sine of k quarter turns
Cos4(k) == LET m == k % 4 IN IF m = 0 THEN 1 ELSE IF m = 2 THEN 0 - 1 ELSE 0
Sin4(k) == LET m == k % 4 IN IF m = 1 THEN 1 ELSE IF m = 3 THEN 0 - 1 ELSE 0

MatMul(A, B) ==
  [i \in 1..3 |-> [j \in 1..3 |->
      A[i][1] * B[1][j] + A[i][2] * B[2][j] + A[i][3] * B[3][j]]]

Rx(k) == << <<1, 0, 0>>, <<0, Cos4(k), Sin4(k)>>, <<0, 0 - Sin4(k), Cos4(k)>> >>
Ry(k) == << <<Cos4(k), 0, 0 - Sin4(k)>>, <<0, 1, 0>>, <<Sin4(k), 0, Cos4(k)>> >>
Rz(k) == << <<Cos4(k), Sin4(k), 0>>, <<0 - Sin4(k), Cos4(k), 0>>, <<0, 0, 1>> >>

\* the matrix R with the rotations about x, then y, then z composed into it
Rotated(R, thetax, thetay, thetaz) ==
  MatMul(Rz(thetaz), MatMul(Ry(thetay), MatMul(Rx(thetax), R)))

\* the matrix generated from three angles alone
RmatrixFromAngles(thetax, thetay, thetaz) ==
  Rotated(Identity, thetax, thetay, thetaz)

\* the record a sum over the reciprocal lattice leaves: the sum is a
\* deterministic function of the beam energy and the orientation matrix, and
\* is abstracted to a one-entry record that determines those inputs
LatticeSumTheta2(energy, rmatrix) == <<energy>>
LatticeSumWeight(energy, rmatrix) == <<rmatrix>>

Call(op, arg, ret) == [op |-> op, arg |-> arg, ret |-> ret]

CanCall == ncalls < MaxCalls

\* what every call does to the bookkeeping variables
Called(op, arg, ret) ==
  /\ CanCall
  /\ lastCall' = Call(op, arg, ret)
  /\ ncalls' = ncalls + 1
  /\ UNCHANGED mainVars

CobInit ==
  /\ fTargetThickness = 0
  /\ fTargetThetax = 0
  /\ fTargetThetay = 0
  /\ fTargetThetaz = 0
  /\ fTargetRmatrix = Identity
  /\ fBeamEnergy \in 1 .. MaxVal
  /\ fBeamErms = 0
  /\ fBeamEmittance = 0
  /\ fCollimatorSpotrms = 0
  /\ fCollimatorDistance = 0
  /\ fCollimatorDiameter = 0
  /\ fCollimatedFlux = FALSE
  /\ fPolarizedFlux = FALSE
  /\ fQ2theta2 = <<>>
  /\ fQ2weight = <<>>
  /\ lastCall = Call("CobremsGenerator", 0, 0)
  /\ ncalls = 0

\* ---- the inline setters (CobremsGenerator.hh:168-214): each is one assignment

setBeamEmittance(emit_m_r) ==
  /\ Called("setBeamEmittance", emit_m_r, 0)
  /\ fBeamEmittance' = emit_m_r
  /\ UNCHANGED <<fTargetThickness, fTargetThetax, fTargetThetay,
                 fTargetThetaz, fTargetRmatrix, fBeamEnergy, fBeamErms,
                 fCollimatorSpotrms, fCollimatorDistance,
                 fCollimatorDiameter, fCollimatedFlux, fPolarizedFlux,
                 fQ2theta2, fQ2weight>>

\* setBeamEnergy as it would be if it discarded the record of the lattice sum
setBeamEnergy_invalidating(Ebeam_GeV) ==
  /\ Called("setBeamEnergy", Ebeam_GeV, 0)
  /\ fBeamEnergy' = Ebeam_GeV
  /\ fQ2theta2' = <<>>
  /\ fQ2weight' = <<>>
  /\ UNCHANGED <<fTargetThickness, fTargetThetax, fTargetThetay,
                 fTargetThetaz, fTargetRmatrix, fBeamErms, fBeamEmittance,
                 fCollimatorSpotrms, fCollimatorDistance,
                 fCollimatorDiameter, fCollimatedFlux, fPolarizedFlux>>

setBeamEnergy(Ebeam_GeV) ==
  /\ Called("setBeamEnergy", Ebeam_GeV, 0)
  /\ fBeamEnergy' = Ebeam_GeV
  /\ UNCHANGED <<fTargetThickness, fTargetThetax, fTargetThetay,
                 fTargetThetaz, fTargetRmatrix, fBeamErms, fBeamEmittance,
                 fCollimatorSpotrms, fCollimatorDistance,
                 fCollimatorDiameter, fCollimatedFlux, fPolarizedFlux,
                 fQ2theta2, fQ2weight>>

\* setBeamErms as it would be if it assigned to the neighbouring field
setBeamErms_wrongField(Erms_GeV) ==
  /\ Called("setBeamErms", Erms_GeV, 0)
  /\ fBeamEnergy' = Erms_GeV
  /\ UNCHANGED <<fTargetThickness, fTargetThetax, fTargetThetay,
                 fTargetThetaz, fTargetRmatrix, fBeamErms, fBeamEmittance,
                 fCollimatorSpotrms, fCollimatorDistance,
                 fCollimatorDiameter, fCollimatedFlux, fPolarizedFlux,
                 fQ2theta2, fQ2weight>>

setBeamErms(Erms_GeV) ==
  /\ Called("setBeamErms", Erms_GeV, 0)
  /\ fBeamErms' = Erms_GeV
  /\ UNCHANGED <<fTargetThickness, fTargetThetax, fTargetThetay,
                 fTargetThetaz, fTargetRmatrix, fBeamEnergy, fBeamEmittance,
                 fCollimatorSpotrms, fCollimatorDistance,
                 fCollimatorDiameter, fCollimatedFlux, fPolarizedFlux,
                 fQ2theta2, fQ2weight>>

setCollimatorSpotrms(spotrms_m) ==
  /\ Called("setCollimatorSpotrms", spotrms_m, 0)
  /\ fCollimatorSpotrms' = spotrms_m
  /\ UNCHANGED <<fTargetThickness, fTargetThetax, fTargetThetay,
                 fTargetThetaz, fTargetRmatrix, fBeamEnergy, fBeamErms,
                 fBeamEmittance, fCollimatorDistance, fCollimatorDiameter,
                 fCollimatedFlux, fPolarizedFlux, fQ2theta2, fQ2weight>>

setCollimatorDistance(distance_m) ==
  /\ Called("setCollimatorDistance", distance_m, 0)
  /\ fCollimatorDistance' = distance_m
  /\ UNCHANGED <<fTargetThickness, fTargetThetax, fTargetThetay,
                 fTargetThetaz, fTargetRmatrix, fBeamEnergy, fBeamErms,
                 fBeamEmittance, fCollimatorSpotrms, fCollimatorDiameter,
                 fCollimatedFlux, fPolarizedFlux, fQ2theta2, fQ2weight>>

setCollimatorDiameter(diameter_m) ==
  /\ Called("setCollimatorDiameter", diameter_m, 0)
  /\ fCollimatorDiameter' = diameter_m
  /\ UNCHANGED <<fTargetThickness, fTargetThetax, fTargetThetay,
                 fTargetThetaz, fTargetRmatrix, fBeamEnergy, fBeamErms,
                 fBeamEmittance, fCollimatorSpotrms, fCollimatorDistance,
                 fCollimatedFlux, fPolarizedFlux, fQ2theta2, fQ2weight>>

\* setTargetThickness as it would be if it refused a negative thickness
setTargetThickness_validating(thickness_m) ==
  /\ Called("setTargetThickness", thickness_m, 0)
  /\ fTargetThickness' = IF thickness_m < 0 THEN fTargetThickness
                         ELSE thickness_m
  /\ UNCHANGED <<fTargetThetax, fTargetThetay, fTargetThetaz, fTargetRmatrix,
                 fBeamEnergy, fBeamErms, fBeamEmittance, fCollimatorSpotrms,
                 fCollimatorDistance, fCollimatorDiameter, fCollimatedFlux,
                 fPolarizedFlux, fQ2theta2, fQ2weight>>

setTargetThickness(thickness_m) ==
  /\ Called("setTargetThickness", thickness_m, 0)
  /\ fTargetThickness' = thickness_m
  /\ UNCHANGED <<fTargetThetax, fTargetThetay, fTargetThetaz, fTargetRmatrix,
                 fBeamEnergy, fBeamErms, fBeamEmittance, fCollimatorSpotrms,
                 fCollimatorDistance, fCollimatorDiameter, fCollimatedFlux,
                 fPolarizedFlux, fQ2theta2, fQ2weight>>

\* setTargetThetax as it would be if it regenerated the matrix from the angles
setTargetThetax_regenerating(thetax) ==
  /\ Called("setTargetThetax", thetax, 0)
  /\ fTargetThetax' = thetax
  /\ fTargetRmatrix' = RmatrixFromAngles(thetax, fTargetThetay, fTargetThetaz)
  /\ UNCHANGED <<fTargetThickness, fTargetThetay, fTargetThetaz, fBeamEnergy,
                 fBeamErms, fBeamEmittance, fCollimatorSpotrms,
                 fCollimatorDistance, fCollimatorDiameter, fCollimatedFlux,
                 fPolarizedFlux, fQ2theta2, fQ2weight>>

setTargetThetax(thetax) ==
  /\ Called("setTargetThetax", thetax, 0)
  /\ fTargetThetax' = thetax
  /\ UNCHANGED <<fTargetThickness, fTargetThetay, fTargetThetaz,
                 fTargetRmatrix, fBeamEnergy, fBeamErms, fBeamEmittance,
                 fCollimatorSpotrms, fCollimatorDistance,
                 fCollimatorDiameter, fCollimatedFlux, fPolarizedFlux,
                 fQ2theta2, fQ2weight>>

setTargetThetay(thetay) ==
  /\ Called("setTargetThetay", thetay, 0)
  /\ fTargetThetay' = thetay
  /\ UNCHANGED <<fTargetThickness, fTargetThetax, fTargetThetaz,
                 fTargetRmatrix, fBeamEnergy, fBeamErms, fBeamEmittance,
                 fCollimatorSpotrms, fCollimatorDistance,
                 fCollimatorDiameter, fCollimatedFlux, fPolarizedFlux,
                 fQ2theta2, fQ2weight>>

setTargetThetaz(thetaz) ==
  /\ Called("setTargetThetaz", thetaz, 0)
  /\ fTargetThetaz' = thetaz
  /\ UNCHANGED <<fTargetThickness, fTargetThetax, fTargetThetay,
                 fTargetRmatrix, fBeamEnergy, fBeamErms, fBeamEmittance,
                 fCollimatorSpotrms, fCollimatorDistance,
                 fCollimatorDiameter, fCollimatedFlux, fPolarizedFlux,
                 fQ2theta2, fQ2weight>>

setCollimatedFlux(flag) ==
  /\ Called("setCollimatedFlux", flag, 0)
  /\ fCollimatedFlux' = flag
  /\ UNCHANGED <<fTargetThickness, fTargetThetax, fTargetThetay,
                 fTargetThetaz, fTargetRmatrix, fBeamEnergy, fBeamErms,
                 fBeamEmittance, fCollimatorSpotrms, fCollimatorDistance,
                 fCollimatorDiameter, fPolarizedFlux, fQ2theta2, fQ2weight>>

setPolarizedFlux(flag) ==
  /\ Called("setPolarizedFlux", flag, 0)
  /\ fPolarizedFlux' = flag
  /\ UNCHANGED <<fTargetThickness, fTargetThetax, fTargetThetay,
                 fTargetThetaz, fTargetRmatrix, fBeamEnergy, fBeamErms,
                 fBeamEmittance, fCollimatorSpotrms, fCollimatorDistance,
                 fCollimatorDiameter, fCollimatedFlux, fQ2theta2, fQ2weight>>

\* resetTargetOrientation as it would be if it zeroed the angles as well
resetTargetOrientation_zeroing ==
  /\ Called("resetTargetOrientation", 0, 0)
  /\ fTargetRmatrix' = << <<1, 0, 0>>, <<0, 1, 0>>, <<0, 0, 1>> >>
  /\ fTargetThetax' = 0
  /\ fTargetThetay' = 0
  /\ fTargetThetaz' = 0
  /\ UNCHANGED <<fTargetThickness, fBeamEnergy, fBeamErms, fBeamEmittance,
                 fCollimatorSpotrms, fCollimatorDistance,
                 fCollimatorDiameter, fCollimatedFlux, fPolarizedFlux,
                 fQ2theta2, fQ2weight>>

\* CobremsGenerator.hh:216-226: nine assignments to the matrix, nothing else
resetTargetOrientation ==
  /\ Called("resetTargetOrientation", 0, 0)
  /\ fTargetRmatrix' = << <<1, 0, 0>>, <<0, 1, 0>>, <<0, 0, 1>> >>
  /\ UNCHANGED <<fTargetThickness, fTargetThetax, fTargetThetay,
                 fTargetThetaz, fBeamEnergy, fBeamErms, fBeamEmittance,
                 fCollimatorSpotrms, fCollimatorDistance,
                 fCollimatorDiameter, fCollimatedFlux, fPolarizedFlux,
                 fQ2theta2, fQ2weight>>

\* RotateTarget is declared at CobremsGenerator.hh:52 and defined elsewhere:
\* it composes an incremental rotation into the existing matrix
RotateTarget(thetax, thetay, thetaz) ==
  /\ Called("RotateTarget", <<thetax, thetay, thetaz>>, 0)
  /\ fTargetRmatrix' = Rotated(fTargetRmatrix, thetax, thetay, thetaz)
  /\ UNCHANGED <<fTargetThickness, fTargetThetax, fTargetThetay,
                 fTargetThetaz, fBeamEnergy, fBeamErms, fBeamEmittance,
                 fCollimatorSpotrms, fCollimatorDistance,
                 fCollimatorDiameter, fCollimatedFlux, fPolarizedFlux,
                 fQ2theta2, fQ2weight>>

\* A rate query (Rate_dNcdx and the rates built on it, declared at
\* CobremsGenerator.hh:81-93 and defined elsewhere).  It returns a rate
\* computed from a record of the reciprocal-lattice sum; whether it sums anew
\* or uses the record it finds is left open, a record that is empty is always
\* summed anew.
RateQuerySum ==
  /\ Called("Rate_dNcdx", 0, LatticeSumTheta2(fBeamEnergy, fTargetRmatrix))
  /\ fQ2theta2' = LatticeSumTheta2(fBeamEnergy, fTargetRmatrix)
  /\ fQ2weight' = LatticeSumWeight(fBeamEnergy, fTargetRmatrix)
  /\ UNCHANGED <<fTargetThickness, fTargetThetax, fTargetThetay,
                 fTargetThetaz, fTargetRmatrix, fBeamEnergy, fBeamErms,
                 fBeamEmittance, fCollimatorSpotrms, fCollimatorDistance,
                 fCollimatorDiameter, fCollimatedFlux, fPolarizedFlux>>

RateQueryReuse ==
  /\ fQ2theta2 # <<>>
  /\ Called("Rate_dNcdx", 0, fQ2theta2)
  /\ UNCHANGED <<fTargetThickness, fTargetThetax, fTargetThetay,
                 fTargetThetaz, fTargetRmatrix, fBeamEnergy, fBeamErms,
                 fBeamEmittance, fCollimatorSpotrms, fCollimatorDistance,
                 fCollimatorDiameter, fCollimatedFlux, fPolarizedFlux,
                 fQ2theta2, fQ2weight>>

\* ---- the inline getters (CobremsGenerator.hh:56-68): each returns one field

configFields == <<fTargetThickness, fTargetThetax, fTargetThetay, fTargetThetaz, fTargetRmatrix,
                  fBeamEnergy, fBeamErms, fBeamEmittance,
                  fCollimatorSpotrms, fCollimatorDistance, fCollimatorDiameter,
                  fCollimatedFlux, fPolarizedFlux, fQ2theta2, fQ2weight>>

getBeamEnergy ==
  /\ Called("getBeamEnergy", 0, fBeamEnergy)
  /\ UNCHANGED configFields

getBeamErms ==
  /\ Called("getBeamErms", 0, fBeamErms)
  /\ UNCHANGED configFields

getBeamEmittance ==
  /\ Called("getBeamEmittance", 0, fBeamEmittance)
  /\ UNCHANGED configFields

getCollimatorSpotrms ==
  /\ Called("getCollimatorSpotrms", 0, fCollimatorSpotrms)
  /\ UNCHANGED configFields

getCollimatorDistance ==
  /\ Called("getCollimatorDistance", 0, fCollimatorDistance)
  /\ UNCHANGED configFields

getCollimatorDiameter ==
  /\ Called("getCollimatorDiameter", 0, fCollimatorDiameter)
  /\ UNCHANGED configFields

getTargetThickness ==
  /\ Called("getTargetThickness", 0, fTargetThickness)
  /\ UNCHANGED configFields

getTargetThetax ==
  /\ Called("getTargetThetax", 0, fTargetThetax)
  /\ UNCHANGED configFields

getTargetThetay ==
  /\ Called("getTargetThetay", 0, fTargetThetay)
  /\ UNCHANGED configFields

getTargetThetaz ==
  /\ Called("getTargetThetaz", 0, fTargetThetaz)
  /\ UNCHANGED configFields

getCollimatedFlux ==
  /\ Called("getCollimatedFlux", 0, fCollimatedFlux)
  /\ UNCHANGED configFields

getPolarizedFlux ==
  /\ Called("getPolarizedFlux", 0, fPolarizedFlux)
  /\ UNCHANGED configFields


CobNext ==
  \/ \E v \in Values : setBeamEmittance(v)
  \/ \E v \in Values : setBeamEnergy(v)
  \/ \E v \in Values : setBeamErms(v)
  \/ \E v \in Values : setCollimatorSpotrms(v)
  \/ \E v \in Values : setCollimatorDistance(v)
  \/ \E v \in Values : setCollimatorDiameter(v)
  \/ \E v \in Values : setTargetThickness(v)
  \/ \E v \in Values : setTargetThetax(v)
  \/ \E v \in Values : setTargetThetay(v)
  \/ \E v \in Values : setTargetThetaz(v)
  \/ \E b \in BOOLEAN : setCollimatedFlux(b)
  \/ \E b \in BOOLEAN : setPolarizedFlux(b)
  \/ resetTargetOrientation
  \/ \E tx \in Turns, ty \in Turns, tz \in Turns : RotateTarget(tx, ty, tz)
  \/ RateQuerySum
  \/ RateQueryReuse
  \/ getBeamEnergy
  \/ getBeamErms
  \/ getBeamEmittance
  \/ getCollimatorSpotrms
  \/ getCollimatorDistance
  \/ getCollimatorDiameter
  \/ getTargetThickness
  \/ getTargetThetax
  \/ getTargetThetay
  \/ getTargetThetaz
  \/ getCollimatedFlux
  \/ getPolarizedFlux

\* ================================================================ hdgeant4.cc

\* A command-line argument is a sequence of characters.
ProgName == <<"h", "d">>
Elements ==
  { <<"-", "v">>,                 \* -v
    <<"-", "t", "4">>,            \* -t4  (the value attached, as in the usage text)
    <<"-", "t">>, <<"4">>,        \* -t 4 (the value in an argument of its own)
    <<"-", "r", "7">>,            \* -r7
    <<"-", "r">>, <<"7">>,        \* -r 7
    <<"-", "v", "r", "7">>,       \* -vr7 (grouped)
    <<"-", "x">>,                 \* an option that does not exist
    <<"-", "-">>,                 \* end of options
    <<"m", "a", "c">> }           \* a macro file

argc == Len(argv)
\* argv[i] with the index the C code uses (argv[0] is the program name)
Argv(av, i) == av[i + 1]

\* the option string of hdgeant4.cc:55, "vt:r:"
OptChars == {"v", "t", "r"}
OptWithArg == {"t", "r"}

IsOption(elem) == Len(elem) >= 2 /\ elem[1] = "-"

GetoptResult(c, oi, nc, oa) ==
  [c |-> c, optind |-> oi, nextchar |-> nc, optarg |-> oa]

\* One call getopt(argc, argv, "vt:r:") with the scanner at element oi,
\* character nc (0: at the start of an element).  c is the option character,
\* "?" for an unknown option or a missing value, "EOF" for -1.
getopt(av, oi, nc) ==
  IF nc = 0 /\ (oi >= Len(av) \/ ~IsOption(Argv(av, oi)))
  THEN GetoptResult("EOF", oi, 0, <<>>)
  ELSE IF nc = 0 /\ Argv(av, oi) = <<"-", "-">>
  THEN GetoptResult("EOF", oi + 1, 0, <<>>)
  ELSE
    LET elem == Argv(av, oi)
        p    == IF nc = 0 THEN 2 ELSE nc
        ch   == elem[p]
        last == p = Len(elem)
    IN  IF ch \notin OptChars
        THEN GetoptResult("?", IF last THEN oi + 1 ELSE oi,
                               IF last THEN 0 ELSE p + 1, <<>>)
        ELSE IF ch \notin OptWithArg
        THEN GetoptResult(ch, IF last THEN oi + 1 ELSE oi,
                              IF last THEN 0 ELSE p + 1, <<>>)
        ELSE IF ~last
        THEN GetoptResult(ch, oi + 1, 0, SubSeq(elem, p + 1, Len(elem)))
        ELSE IF oi + 1 < Len(av)
        THEN GetoptResult(ch, oi + 2, 0, Argv(av, oi + 1))
        ELSE GetoptResult("?", oi + 1, 0, <<>>)

Digits == {"0", "1", "2", "3", "4", "5", "6", "7", "8", "9"}
DigitVal(ch) ==
  CASE ch = "0" -> 0 [] ch = "1" -> 1 [] ch = "2" -> 2 [] ch = "3" -> 3
    [] ch = "4" -> 4 [] ch = "5" -> 5 [] ch = "6" -> 6 [] ch = "7" -> 7
    [] ch = "8" -> 8 [] ch = "9" -> 9

RECURSIVE AtoiFrom(_, _, _)
AtoiFrom(s, i, acc) ==
  IF i > Len(s) \/ s[i] \notin Digits THEN acc
  ELSE AtoiFrom(s, i + 1, acc * 10 + DigitVal(s[i]))

\* atoi: an optional sign, then the leading digits; 0 when there are none
atoi(s) ==
  IF Len(s) > 0 /\ s[1] = "-" THEN 0 - AtoiFrom(s, 2, 0)
  ELSE IF Len(s) > 0 /\ s[1] = "+" THEN AtoiFrom(s, 2, 0)
  ELSE AtoiFrom(s, 1, 0)

\* ---- what the command line says, read off it with getopt alone
\* [optind: where getopt stops, r: the values given with -r, in order,
\*  bad: an unknown option or a missing value was met]
RECURSIVE Scan(_, _, _, _)
Scan(av, oi, nc, r) ==
  LET g == getopt(av, oi, nc)
  IN  IF g.c = "EOF" THEN [optind |-> g.optind, r |-> r, bad |-> FALSE]
      ELSE IF g.c = "?" THEN [optind |-> g.optind, r |-> r, bad |-> TRUE]
      ELSE Scan(av, g.optind, g.nextchar,
                IF g.c = "r" THEN Append(r, atoi(g.optarg)) ELSE r)

CommandLine(av) == Scan(av, 1, 0, <<>>)

\* "hdgeant4 [options] [<batch.mac>]": once getopt has stopped, no option
\* follows (getopt's reordering of arguments then plays no part)
OptionsFirst(av) ==
  LET cl == CommandLine(av)
  IN  cl.bad \/ \A i \in cl.optind .. Len(av) - 1 : ~IsOption(Argv(av, i))

CommandLines ==
  { av \in { <<ProgName>> \o s :
               s \in UNION { [1 .. n -> Elements] : n \in 0 .. MaxArgs } } :
      OptionsFirst(av) }

\* ---- control.in, as GlueXUserOptions presents it: whether it could be
\* read, and its cards, each a key with its list of values
RunCards == {"RUNNO", "RUNG"}
CardValues(key) == IF key = "RUNNO" THEN <<5>> ELSE <<6>>
ControlFiles ==
  { [ok |-> FALSE, cards |-> <<>>] } \cup
  { [ok |-> TRUE, cards |-> [k \in S |-> CardValues(k)]] : S \in SUBSET RunCards }

\* opts.Find(key, map): true, with the map filled, when the card is present
Find(key) == key \in DOMAIN controlIn.cards
\* the map Find filled, read at index 1 (a std::map yields 0 for a key it lacks)
FoundValue(key) ==
  IF Len(controlIn.cards[key]) >= 1 THEN controlIn.cards[key][1] ELSE 0

MainInit ==
  /\ argv \in CommandLines
  /\ controlIn \in ControlFiles
  /\ optind = 1
  /\ nextchar = 0
  /\ use_visualization = 0
  /\ worker_threads = 1
  /\ argi = 1
  /\ run_number = 0
  /\ visManager = FALSE
  /\ warned = FALSE
  /\ uiMode = "none"
  /\ fileName = <<>>
  /\ exitCode = 0 - 1
  /\ pc = "getopt"

\* ---- hdgeant4.cc:55-71, one pass through the loop per action
OptionSeen(c) ==
  /\ pc = "getopt"
  /\ getopt(argv, optind, nextchar).c = c
  /\ optind' = getopt(argv, optind, nextchar).optind
  /\ nextchar' = getopt(argv, optind, nextchar).nextchar
  /\ UNCHANGED <<argv, controlIn, visManager, warned, uiMode, fileName>>
  /\ UNCHANGED cobVars

optarg == getopt(argv, optind, nextchar).optarg

OptionV ==
  /\ OptionSeen("v")
  /\ use_visualization' = 1
  /\ argi' = argi + 1
  /\ UNCHANGED <<worker_threads, run_number, exitCode, pc>>

OptionT ==
  /\ OptionSeen("t")
  /\ worker_threads' = atoi(optarg)
  /\ argi' = argi + 2
  /\ UNCHANGED <<use_visualization, run_number, exitCode, pc>>

OptionR ==
  /\ OptionSeen("r")
  /\ run_number' = atoi(optarg)
  /\ argi' = argi + 2
  /\ UNCHANGED <<use_visualization, worker_threads, exitCode, pc>>

\* usage(): exit(9)
OptionOther ==
  /\ OptionSeen("?")
  /\ exitCode' = 9
  /\ pc' = "exit"
  /\ UNCHANGED <<use_visualization, worker_threads, run_number, argi>>

OptionsEnd ==
  /\ OptionSeen("EOF")
  /\ pc' = "control"
  /\ UNCHANGED <<use_visualization, worker_threads, run_number, argi, exitCode>>

\* ---- hdgeant4.cc:74-77
ReadControl_in ==
  /\ pc = "control"
  /\ \/ /\ ~controlIn.ok
        /\ exitCode' = 3
        /\ pc' = "exit"
     \/ /\ controlIn.ok
        /\ pc' = "runno"
        /\ UNCHANGED exitCode
  /\ UNCHANGED <<argv, controlIn, optind, nextchar, use_visualization,
                 worker_threads, argi, run_number, visManager, warned,
                 uiMode, fileName>>
  /\ UNCHANGED cobVars

\* hdgeant4.cc:87
DefaultRunNumber == 9000

\* ---- hdgeant4.cc:78-88
SelectRunNumber ==
  /\ pc = "runno"
  /\ IF run_number = 0
     THEN /\ run_number' = IF Find("RUNNO") THEN FoundValue("RUNNO")
                           ELSE IF Find("RUNG") THEN FoundValue("RUNG")
                           ELSE run_number
          /\ UNCHANGED warned
     ELSE /\ warned' = TRUE
          /\ run_number' = DefaultRunNumber
  /\ pc' = "graphics"
  /\ UNCHANGED <<argv, controlIn, optind, nextchar, use_visualization,
                 worker_threads, argi, visManager, uiMode, fileName, exitCode>>
  /\ UNCHANGED cobVars

\* ---- hdgeant4.cc:121-133; G4VIS_USE is fixed when the program is built
InitGraphics ==
  /\ pc = "graphics"
  /\ \/ /\ use_visualization = 0
        /\ pc' = "ui"
        /\ UNCHANGED <<visManager, exitCode>>
     \/ /\ use_visualization # 0         \* built with G4VIS_USE
        /\ visManager' = TRUE
        /\ pc' = "ui"
        /\ UNCHANGED exitCode
     \/ /\ use_visualization # 0         \* built without G4VIS_USE
        /\ exitCode' = 1
        /\ pc' = "exit"
        /\ UNCHANGED visManager
  /\ UNCHANGED <<argv, controlIn, optind, nextchar, use_visualization,
                 worker_threads, argi, run_number, warned, uiMode, fileName>>
  /\ UNCHANGED cobVars

\* ---- hdgeant4.cc:135-161
StartUI ==
  /\ pc = "ui"
  /\ IF argc > argi
     THEN /\ uiMode' = "batch"
          /\ fileName' = Argv(argv, argi)
     ELSE IF visManager
     THEN /\ uiMode' = "interactive_vis"
          /\ UNCHANGED fileName
     ELSE /\ uiMode' = "interactive"
          /\ UNCHANGED fileName
  /\ exitCode' = 0
  /\ pc' = "done"
  /\ UNCHANGED <<argv, controlIn, optind, nextchar, use_visualization,
                 worker_threads, argi, run_number, visManager, warned>>
  /\ UNCHANGED cobVars

MainNext ==
  \/ OptionV
  \/ OptionT
  \/ OptionR
  \/ OptionOther
  \/ OptionsEnd
  \/ ReadControl_in
  \/ SelectRunNumber
  \/ InitGraphics
  \/ StartUI

\* ============================================================ specifications

\* the main program, not started
MainIdle ==
  /\ argv = <<ProgName>>
  /\ controlIn = [ok |-> FALSE, cards |-> <<>>]
  /\ optind = 1
  /\ nextchar = 0
  /\ use_visualization = 0
  /\ worker_threads = 1
  /\ argi = 1
  /\ run_number = 0
  /\ visManager = FALSE
  /\ warned = FALSE
  /\ uiMode = "none"
  /\ fileName = <<>>
  /\ exitCode = 0 - 1
  /\ pc = "idle"

\* no CobremsGenerator in play
CobIdle ==
  /\ CobInit
  /\ fBeamEnergy = 1

Init == CobInit /\ MainIdle
Next == CobNext
Spec == Init /\ [][Next]_vars

MainSpecInit == MainInit /\ CobIdle
MainSpec == MainSpecInit /\ [][MainNext]_vars


\* ====================================================== properties, Spec

\* the fields of a CobremsGenerator, by name
Config ==
  [fTargetThickness |-> fTargetThickness,
   fTargetThetax |-> fTargetThetax,
   fTargetThetay |-> fTargetThetay,
   fTargetThetaz |-> fTargetThetaz,
   fTargetRmatrix |-> fTargetRmatrix,
   fBeamEnergy |-> fBeamEnergy,
   fBeamErms |-> fBeamErms,
   fBeamEmittance |-> fBeamEmittance,
   fCollimatorSpotrms |-> fCollimatorSpotrms,
   fCollimatorDistance |-> fCollimatorDistance,
   fCollimatorDiameter |-> fCollimatorDiameter,
   fCollimatedFlux |-> fCollimatedFlux,
   fPolarizedFlux |-> fPolarizedFlux,
   fQ2theta2 |-> fQ2theta2,
   fQ2weight |-> fQ2weight]

\* the field each scalar setter and each getter is declared for
SetterField ==
  [setBeamEnergy |-> "fBeamEnergy",
   setBeamErms |-> "fBeamErms",
   setBeamEmittance |-> "fBeamEmittance",
   setCollimatorSpotrms |-> "fCollimatorSpotrms",
   setCollimatorDistance |-> "fCollimatorDistance",
   setCollimatorDiameter |-> "fCollimatorDiameter",
   setTargetThickness |-> "fTargetThickness",
   setTargetThetax |-> "fTargetThetax",
   setTargetThetay |-> "fTargetThetay",
   setTargetThetaz |-> "fTargetThetaz",
   setCollimatedFlux |-> "fCollimatedFlux",
   setPolarizedFlux |-> "fPolarizedFlux"]

GetterField ==
  [getBeamEnergy |-> "fBeamEnergy",
   getBeamErms |-> "fBeamErms",
   getBeamEmittance |-> "fBeamEmittance",
   getCollimatorSpotrms |-> "fCollimatorSpotrms",
   getCollimatorDistance |-> "fCollimatorDistance",
   getCollimatorDiameter |-> "fCollimatorDiameter",
   getTargetThickness |-> "fTargetThickness",
   getTargetThetax |-> "fTargetThetax",
   getTargetThetay |-> "fTargetThetay",
   getTargetThetaz |-> "fTargetThetaz",
   getCollimatedFlux |-> "fCollimatedFlux",
   getPolarizedFlux |-> "fPolarizedFlux"]

AngleSetters == {"setTargetThetax", "setTargetThetay", "setTargetThetaz"}

\* the mutators of an input of the lattice sum that CobremsGenerator.hh defines
LatticeMutators ==
  AngleSetters \cup {"setBeamEnergy", "resetTargetOrientation"}

Angles == <<fTargetThetax, fTargetThetay, fTargetThetaz>>

RecordIsEmpty == fQ2theta2 = <<>> /\ fQ2weight = <<>>
RecordIsCurrent ==
  /\ fQ2theta2 = LatticeSumTheta2(fBeamEnergy, fTargetRmatrix)
  /\ fQ2weight = LatticeSumWeight(fBeamEnergy, fTargetRmatrix)

\* ---- C1
\* C1, as claimed: once resetTargetOrientation has been called, the matrix is
\* the identity and the three angles are 0.
C1_ResetZeroesAngles ==
  lastCall.op = "resetTargetOrientation" =>
    /\ fTargetRmatrix = Identity
    /\ fTargetThetax = 0 /\ fTargetThetay = 0 /\ fTargetThetaz = 0

\* C1, amended: a call of resetTargetOrientation leaves the matrix the
\* identity and leaves each of the three angles as it was before the call.
C1_ResetKeepsAngles ==
  [][lastCall'.op = "resetTargetOrientation" =>
       /\ fTargetRmatrix' = Identity
       /\ Angles' = Angles]_vars

\* a reset, as the third call, that found a non-zero angle and left it
C1_Witness ==
  /\ lastCall.op = "resetTargetOrientation"
  /\ ncalls = 3
  /\ fTargetRmatrix = Identity
  /\ fTargetThetax # 0

\* ---- C2
\* C2, as claimed: a call of an angle mutator regenerates the matrix, which
\* is then the matrix of the three stored angles.
C2_SetterRegeneratesMatrix ==
  [][lastCall'.op \in AngleSetters =>
       fTargetRmatrix' =
         RmatrixFromAngles(fTargetThetax', fTargetThetay', fTargetThetaz')]_vars

\* C2, amended: a call of setTargetThetax, setTargetThetay or setTargetThetaz
\* leaves the matrix as it was before the call.
C2_SetterLeavesMatrix ==
  [][lastCall'.op \in AngleSetters => fTargetRmatrix' = fTargetRmatrix]_vars

\* an angle mutator has returned and the matrix is not the one of the angles
C2_Witness ==
  /\ lastCall.op \in AngleSetters
  /\ lastCall.arg # 0
  /\ fTargetRmatrix #
       RmatrixFromAngles(fTargetThetax, fTargetThetay, fTargetThetaz)

\* ---- C3
\* C3: a call of a scalar setter changes its own field to the value passed
\* and no other field; a call of a getter changes no field and returns the
\* value of its field.
C3_SettersAndGetters ==
  [][/\ lastCall'.op \in DOMAIN SetterField =>
          Config' = [Config EXCEPT ![SetterField[lastCall'.op]] = lastCall'.arg]
     /\ lastCall'.op \in DOMAIN GetterField =>
          /\ Config' = Config
          /\ lastCall'.ret = Config[GetterField[lastCall'.op]]]_vars

\* two setters have been called and then a getter, which returned the value
\* passed to its setter
C3_Witness ==
  /\ lastCall.op = "getTargetThickness"
  /\ lastCall.ret = 1
  /\ fBeamErms = 0 - 1
  /\ ncalls = 3

\* ---- C4
\* C4, as claimed: no reachable state has a negative stored target thickness
\* or beam energy.
C4_NoNegativeStored == fTargetThickness >= 0 /\ fBeamEnergy >= 0

\* C4, amended: setTargetThickness and setBeamEnergy store the value passed
\* whatever its sign.
C4_StoredAsPassed ==
  /\ lastCall.op = "setTargetThickness" => fTargetThickness = lastCall.arg
  /\ lastCall.op = "setBeamEnergy" => fBeamEnergy = lastCall.arg

\* a negative thickness has been passed and is stored
C4_Witness ==
  /\ lastCall.op = "setTargetThickness"
  /\ lastCall.arg < 0
  /\ fTargetThickness < 0

\* ---- C5
\* C5, as claimed: after a call of a mutator of an input of the lattice sum,
\* the record of the sum is not one computed from older inputs: it has been
\* discarded, or it is the sum of the inputs now stored.
C5_MutatorMarksStale ==
  [][lastCall'.op \in LatticeMutators => (RecordIsEmpty' \/ RecordIsCurrent')]_vars

\* C5, amended: a call of setBeamEnergy, setTargetThetax, setTargetThetay,
\* setTargetThetaz or resetTargetOrientation leaves fQ2theta2 and fQ2weight
\* as they were before the call.
C5_MutatorsLeaveRecord ==
  [][lastCall'.op \in LatticeMutators =>
       /\ fQ2theta2' = fQ2theta2
       /\ fQ2weight' = fQ2weight]_vars

\* the beam energy has been changed and the record is still the sum for the
\* energy before the change
C5_Witness ==
  /\ lastCall.op = "setBeamEnergy"
  /\ ~RecordIsEmpty
  /\ ~RecordIsCurrent

\* ================================================== properties, MainSpec

\* the run number has been chosen (hdgeant4.cc:88 is behind)
RunNumberChosen ==
  pc \in {"graphics", "ui", "done"} \/ (pc = "exit" /\ exitCode = 1)

\* the values given with -r on the command line
RunOptions == CommandLine(argv).r
\* the run number the command line asks for, 0 when it asks for none
RunOption ==
  IF RunOptions = <<>> THEN 0 ELSE RunOptions[Len(RunOptions)]

\* the run number control.in gives (RUNNO before RUNG), 0 when it gives none
ControlRunNumber ==
  IF "RUNNO" \in DOMAIN controlIn.cards THEN controlIn.cards["RUNNO"][1]
  ELSE IF "RUNG" \in DOMAIN controlIn.cards THEN controlIn.cards["RUNG"][1]
  ELSE 0

\* the index of the first argument that is not an option
FirstOperand == CommandLine(argv).optind

\* ---- C6
\* C6: once the options and control.in have been processed, the run number
\* is N when -r N (N non-zero) was given, and is the one of control.in when
\* no -r was given and control.in has a RUNNO or RUNG entry.
C6_RunNumberInEffect ==
  RunNumberChosen =>
    /\ RunOption # 0 => run_number = RunOption
    /\ (RunOptions = <<>> /\ ControlRunNumber # 0) =>
          run_number = ControlRunNumber

\* ---- C7
\* a command line "hdgeant4 [options] <batch.mac>": options of "vt:r:" with
\* their values, then a macro file
OptionsThenMacro ==
  /\ ~CommandLine(argv).bad
  /\ FirstOperand < argc
  /\ \A i \in 1 .. argc - 1 : Argv(argv, i) # <<"-", "-">>

\* C7: for such a command line, after option parsing argi is the index of
\* the first argument that is not an option, and the program runs in batch
\* mode and executes that argument as the macro file.
C7_BatchRunsFirstOperand ==
  OptionsThenMacro =>
    /\ pc \in {"control", "runno", "graphics", "ui", "done"} =>
         argi = FirstOperand
    /\ pc = "done" =>
         uiMode = "batch" /\ fileName = Argv(argv, FirstOperand)

\* ---- C8
\* C8: the default run number is assumed, with its warning, exactly when
\* neither -r N nor a RUNNO or RUNG entry of control.in gives a run number,
\* and the run number is never 0 once it has been chosen.
C8_DefaultExactlyWhenUnspecified ==
  RunNumberChosen =>
    /\ (warned /\ run_number = DefaultRunNumber) <=>
         (RunOption = 0 /\ ControlRunNumber = 0)
    /\ run_number # 0

=============================================================================
